---- MODULE Spec2Model ----
(***************************************************************************)
(* create-astreus-agent: the scaffolding CLI of src/src/index.ts.          *)
(*                                                                         *)
(* The source file holds two copies of the program: release 0.5.38         *)
(* (lines 1-409) and release 0.5.37 (lines 411-751).  Both are modelled;   *)
(* the variable version says which copy runs.  Definitions of the        *)
(* 0.5.37 copy carry the suffix _37.                                       *)
(*                                                                         *)
(* A text (a JavaScript string that is written to a file) is the sequence  *)
(* of its lines, i.e. text.split("\n").  A JavaScript value is a record    *)
(* [t |-> its typeof, v |-> its string conversion as a text].  A string of  *)
(* the module cannot hold U+0060 or a non-ASCII character: each is written *)
(* as its code point in angle brackets.                                    *)
(***************************************************************************)
EXTENDS Integers, Sequences, FiniteSets, TLC

VARIABLES
  version,   \* which copy of the program is installed: "0.5.38" or "0.5.37"
  fs,        \* the file system under process.cwd(): path -> entry
  pc,        \* per process: the statement of main / createProject it waits at
  config,    \* per process: the answers collected so far / the ProjectConfig
  thrown,    \* per process: the message of the error createProject rejected with
  reported,  \* per process: what p.log.error printed
  exitCode,  \* per process: the exit code, -1 while the process is alive
  invoked,   \* per process: createProject has been called
  wrote,     \* per process: the fs calls of this createProject that took effect
  runs,      \* how many CLI processes have been started one after another
  input,     \* GenSpec: the ProjectConfig handed to the generators
  output     \* GenSpec: what each generator returned for the input

vars == <<version, fs, pc, config, thrown, reported, exitCode, invoked, wrote,
          runs, input, output>>

\* ------------------------------------------------------------------ bounds

\* CLI processes started one after another under Spec.
MaxRuns == 2

\* ------------------------------------------------------- JavaScript values

Str(lines) == [t |-> "string", v |-> lines]

Undefined == [t |-> "undefined", v |-> <<"undefined">>]

\* Property names every object literal inherits from Object.prototype: a
\* lookup table[key] with such a key finds the inherited member.
ObjectPrototypeKeys ==
  {"constructor", "__proto__", "toString", "valueOf", "hasOwnProperty"}

Inherited(key) ==
  IF key = "__proto__"
  THEN [t |-> "object", v |-> <<"[object Object]">>]
  ELSE [t |-> "function",
        v |-> <<"function " \o (IF key = "constructor" THEN "Object" ELSE key)
                \o "() { [native code] }">>]

\* table[key] on an object literal (a Record<string, string>).
Get(table, key) ==
  IF key \in DOMAIN table THEN Str(table[key])
  ELSE IF key \in ObjectPrototypeKeys THEN Inherited(key)
  ELSE Undefined

Truthy(val) ==
  /\ val.t # "undefined"
  /\ ~(val.t = "string" /\ val.v = <<"">>)

\* a || b
Or(a, b) == IF Truthy(a) THEN a ELSE b

\* ${val} inside a one-line template literal
Interp(val) == val.v[1]

\* array.includes(x)
Includes(arr, x) == \E i \in 1..Len(arr) : arr[i] = x

\* array.join(sep) for an array of one-line strings
RECURSIVE Join(_, _)
Join(arr, sep) ==
  IF Len(arr) = 0 THEN ""
  ELSE IF Len(arr) = 1 THEN arr[1]
  ELSE arr[1] \o sep \o Join(Tail(arr), sep)

\* ------------------------------------------------------------ getEnvContent

envVars ==
  [openai    |-> <<"OPENAI_API_KEY=your-api-key-here">>,
   anthropic |-> <<"ANTHROPIC_API_KEY=your-api-key-here">>,
   google    |-> <<"GEMINI_API_KEY=your-api-key-here">>,
   ollama    |-> <<"# Ollama runs locally, no API key needed",
                   "OLLAMA_HOST=http://localhost:11434">>,
   multiple  |-> <<"# Add API keys for providers you want to use",
                   "OPENAI_API_KEY=your-openai-key",
                   "ANTHROPIC_API_KEY=your-anthropic-key",
                   "GEMINI_API_KEY=your-gemini-key">>]

envVars_37 ==
  [openai    |-> <<"OPENAI_API_KEY=your-api-key-here">>,
   anthropic |-> <<"ANTHROPIC_API_KEY=your-api-key-here">>,
   google    |-> <<"GOOGLE_API_KEY=your-api-key-here">>,
   ollama    |-> <<"# Ollama runs locally, no API key needed",
                   "OLLAMA_HOST=http://localhost:11434">>,
   multiple  |-> <<"# Add API keys for providers you want to use",
                   "OPENAI_API_KEY=your-openai-key",
                   "ANTHROPIC_API_KEY=your-anthropic-key",
                   "GOOGLE_API_KEY=your-google-key">>]

getEnvContent(provider) ==
  Or(Get(envVars, provider), Str(envVars.openai))

getEnvContent_37(provider) ==
  Or(Get(envVars_37, provider), Str(envVars_37.openai))

\* --------------------------------------------------------- generateMainFile

\* lines 237-249: const sdkImports = ['Agent'] and the four pushes
sdkImports(cfg) ==
  <<"Agent">>
  \o (IF Includes(cfg.features, "memory") THEN <<"Memory">> ELSE <<>>)
  \o (IF Includes(cfg.features, "knowledge") THEN <<"Knowledge">> ELSE <<>>)
  \o (IF Includes(cfg.features, "graph") THEN <<"Graph">> ELSE <<>>)
  \o (IF Includes(cfg.features, "plugins") THEN <<"getPlugin">> ELSE <<>>)

imports(cfg) ==
  << "import { " \o Join(sdkImports(cfg), ", ") \o " } from '@astreus-ai/astreus';",
     "import 'dotenv/config';" >>

modelMap ==
  [openai    |-> <<"gpt-4o">>,
   anthropic |-> <<"claude-sonnet-4-20250514">>,
   google    |-> <<"gemini-2.0-flash">>,
   ollama    |-> <<"llama3">>,
   multiple  |-> <<"gpt-4o">>]

\* const model = modelMap[config.provider] || modelMap.openai
model(cfg) == Or(Get(modelMap, cfg.provider), Str(modelMap.openai))

systemPromptLine ==
  "    systemPrompt: 'You are a helpful AI assistant powered by Astreus.'"

agentOptions(cfg) ==
  << "    name: '" \o cfg.name \o "'",
     "    model: '" \o Interp(model(cfg)) \o "'",
     systemPromptLine >>
  \o (IF Includes(cfg.features, "memory") THEN <<"    memory: true">> ELSE <<>>)
  \o (IF Includes(cfg.features, "knowledge") THEN <<"    knowledge: true">> ELSE <<>>)

\* Each block is a template literal that starts and ends with a line break:
\* appended to the text it adds one empty line and then its comment lines.
additionalSetup(cfg) ==
  (IF Includes(cfg.features, "knowledge") THEN
     << "",
        "  // Add documents to knowledge base (optional)",
        "  // const knowledge = new Knowledge({ agent });",
        "  // await knowledge.addDocument('./documents/guide.pdf');" >>
   ELSE <<>>)
  \o
  (IF Includes(cfg.features, "graph") THEN
     << "",
        "  // Create a graph workflow (optional)",
        "  // const graph = new Graph({ name: 'my-workflow' }, agent);",
        "  // graph.addAgentNode({ name: 'researcher', prompt: 'Research the topic' });",
        "  // graph.addAgentNode({ name: 'writer', prompt: 'Write about the research' });",
        "  // graph.link('researcher', 'writer');",
        "  // const result = await graph.run('Tell me about AI agents');" >>
   ELSE <<>>)
  \o
  (IF Includes(cfg.features, "plugins") THEN
     << "",
        "  // Register custom plugins (optional)",
        "  // const myPlugin = getPlugin({",
        "  //   name: 'my-plugin',",
        "  //   tools: [{",
        "  //     name: 'my_tool',",
        "  //     description: 'My custom tool',",
        "  //     parameters: { query: { type: 'string', description: 'The query' } },",
        "  //     handler: async ({ query }) => ({ success: true, data: query })",
        "  //   }]",
        "  // });",
        "  // agent.registerPlugin(myPlugin);" >>
   ELSE <<>>)
  \o
  (IF Includes(cfg.features, "subagents") THEN
     << "",
        "  // Create sub-agents for complex tasks (optional)",
        "  // const researcher = await Agent.create({ name: 'researcher', model: '"
            \o Interp(model(cfg)) \o "' });",
        "  // const writer = await Agent.create({ name: 'writer', model: '"
            \o Interp(model(cfg)) \o "' });",
        "  // agent.registerSubAgent(researcher);",
        "  // agent.registerSubAgent(writer);" >>
   ELSE <<>>)

\* The fixed tail of the template, lines 338-371.
interactiveLoop ==
  << "",
     "  // Interactive loop",
     "  const readline = await import('readline');",
     "  const rl = readline.createInterface({",
     "    input: process.stdin,",
     "    output: process.stdout,",
     "  });",
     "",
     "  console.log('Agent ready! Type your message (or \"exit\" to quit):\\n');",
     "",
     "  const prompt = () => {",
     "    rl.question('You: ', async (input) => {",
     "      if (input.toLowerCase() === 'exit') {",
     "        console.log('\\nGoodbye!');",
     "        rl.close();",
     "        process.exit(0);",
     "      }",
     "",
     "      try {",
     "        const response = await agent.run(input);",
     "        console.log(<U+0060>\\nAgent: ${response}\\n<U+0060>);",
     "      } catch (error) {",
     "        console.error('Error:', error instanceof Error ? error.message : error);",
     "      }",
     "",
     "      prompt();",
     "    });",
     "  };",
     "",
     "  prompt();",
     "}",
     "",
     "main().catch(console.error);",
     "" >>

\* ${agentOptions.join(',\n')}, : every option line ends with a comma.
JoinedOptions(opts) == [i \in 1..Len(opts) |-> opts[i] \o ","]

agentCreateOpen == "  const agent = await Agent.create({"

generateMainFile(cfg) ==
  imports(cfg)
  \o << "",
        "async function main() {",
        "  console.log('Starting Astreus Agent...\\n');",
        "",
        "  // Create the agent",
        agentCreateOpen >>
  \o JoinedOptions(agentOptions(cfg))
  \o << "  });" >>
  \o additionalSetup(cfg)
  \o interactiveLoop

\* --------------------------------------------- generateMainFile, 0.5.37 copy

imports_37(cfg) ==
  << "import { Agent } from \"@astreus-ai/sdk\";",
     "import \"dotenv/config\";" >>
  \o (IF Includes(cfg.features, "memory")
      THEN <<"import { MemoryModule } from \"@astreus-ai/sdk\";">> ELSE <<>>)
  \o (IF Includes(cfg.features, "knowledge")
      THEN <<"import { KnowledgeModule } from \"@astreus-ai/sdk\";">> ELSE <<>>)
  \o (IF Includes(cfg.features, "graph")
      THEN <<"import { GraphModule } from \"@astreus-ai/sdk\";">> ELSE <<>>)

providerMap_37 ==
  [openai    |-> [provider |-> "openai",    model |-> "gpt-4"],
   anthropic |-> [provider |-> "anthropic", model |-> "claude-3-opus-20240229"],
   google    |-> [provider |-> "google",    model |-> "gemini-pro"],
   ollama    |-> [provider |-> "ollama",    model |-> "llama2"],
   multiple  |-> [provider |-> "openai",    model |-> "gpt-4"]]

\* const { provider, model } = providerMap[config.provider] || providerMap.openai
\* An inherited member is truthy and has neither property.
providerEntry_37(cfg) ==
  LET own(k) == [provider |-> Str(<<providerMap_37[k].provider>>),
                 model    |-> Str(<<providerMap_37[k].model>>)]
  IN IF cfg.provider \in DOMAIN providerMap_37 THEN own(cfg.provider)
     ELSE IF cfg.provider \in ObjectPrototypeKeys
          THEN [provider |-> Undefined, model |-> Undefined]
     ELSE own("openai")

moduleSetup_37(cfg) ==
  IF Includes(cfg.features, "memory") THEN
    << "",
       "  // Memory module for persistent storage",
       "  const memory = new MemoryModule({",
       "    database: { type: \"sqlite\", path: \"./data/memory.db\" },",
       "  });" >>
  ELSE <<>>

agentModules_37(cfg) ==
  IF Len(cfg.features) > 0 /\ Includes(cfg.features, "memory")
  THEN <<"    modules: [memory],">>
  ELSE <<>>

systemPromptLine_37 ==
  "    systemPrompt: \"You are a helpful AI assistant powered by Astreus.\","

agentNewOpen_37 == "  const agent = new Agent({"

\* The construction block of the template, lines 698-705.
agentBlock_37(cfg) ==
  << agentNewOpen_37,
     "    name: \"" \o cfg.name \o "\",",
     "    model: {",
     "      provider: \"" \o Interp(providerEntry_37(cfg).provider) \o "\",",
     "      name: \"" \o Interp(providerEntry_37(cfg).model) \o "\",",
     "    }," >>
  \o << systemPromptLine_37 >>
  \o agentModules_37(cfg)
  \o << "  });" >>

generateMainFile_37(cfg) ==
  imports_37(cfg)
  \o << "",
        "async function main() {",
        "  console.log(\"<U+1F680> Starting Astreus Agent...\\n\");" >>
  \o moduleSetup_37(cfg)
  \o << "" >>
  \o agentBlock_37(cfg)
  \o << "",
        "  // Run the agent",
        "  const response = await agent.run({",
        "    prompt: \"Hello! What can you help me with today?\",",
        "  });",
        "",
        "  console.log(\"Agent:\", response.content);",
        "}",
        "",
        "main().catch(console.error);",
        "" >>

\* ----------------------------------------------------------- generateReadme

featuresDoc(cfg) ==
  IF Len(cfg.features) > 0
  THEN << "", "## Features", "", "This project includes:" >>
       \o [i \in 1..Len(cfg.features) |-> "- " \o cfg.features[i]]
       \o << "" >>
  ELSE << "" >>

generateReadme(cfg) ==
  << "# " \o cfg.name,
     "",
     "An AI agent powered by [Astreus](https://astreus.org).",
     "",
     "## Getting Started",
     "",
     "1. Install dependencies:",
     "   <U+0060><U+0060><U+0060>bash",
     "   npm install",
     "   <U+0060><U+0060><U+0060>",
     "",
     "2. Configure your environment:",
     "   <U+0060><U+0060><U+0060>bash",
     "   cp .env.example .env",
     "   # Edit .env with your API keys",
     "   <U+0060><U+0060><U+0060>",
     "",
     "3. Run the agent:",
     "   <U+0060><U+0060><U+0060>bash",
     "   npm run dev",
     "   <U+0060><U+0060><U+0060>" >>
  \o featuresDoc(cfg)
  \o << "## Learn More",
        "",
        "- [Astreus Documentation](https://astreus.org/docs)",
        "- [Examples](https://github.com/astreus-ai/astreus/tree/main/examples)",
        "" >>

\* The 0.5.37 copy (lines 719-751) is the same template.
generateReadme_37(cfg) == generateReadme(cfg)

\* ------------------------------------------------- package.json, tsconfig.json

Obj(members) == [t |-> "object", members |-> members]

\* The object literal of lines 148-168; a member is <<key, value>>.
packageJson(cfg) ==
  << <<"name", Str(<<cfg.name>>)>>,
     <<"version", Str(<<"0.1.0">>)>>,
     <<"type", Str(<<"module">>)>>,
     <<"scripts", Obj(<<
        <<"dev", Str(<<IF cfg.typescript THEN "tsx src/index.ts" ELSE "node src/index.js">>)>>,
        <<"build", IF cfg.typescript THEN Str(<<"tsc">>) ELSE Undefined>>,
        <<"start", Str(<<IF cfg.typescript THEN "node dist/index.js" ELSE "node src/index.js">>)>> >>)>>,
     <<"dependencies", Obj(<<
        <<"@astreus-ai/astreus", Str(<<"latest">>)>>,
        <<"dotenv", Str(<<"^16.6.1">>)>> >>)>>,
     <<"devDependencies",
       IF cfg.typescript
       THEN Obj(<< <<"@types/node", Str(<<"^20.19.25">>)>>,
                   <<"tsx", Str(<<"^4.19.0">>)>>,
                   <<"typescript", Str(<<"^5.8.3">>)>> >>)
       ELSE Undefined>> >>

\* The object literal of lines 563-583.
packageJson_37(cfg) ==
  << <<"name", Str(<<cfg.name>>)>>,
     <<"version", Str(<<"0.1.0">>)>>,
     <<"type", Str(<<"module">>)>>,
     <<"scripts", Obj(<<
        <<"dev", Str(<<IF cfg.typescript THEN "tsx src/index.ts" ELSE "node src/index.js">>)>>,
        <<"build", IF cfg.typescript THEN Str(<<"tsc">>) ELSE Undefined>>,
        <<"start", Str(<<IF cfg.typescript THEN "node dist/index.js" ELSE "node src/index.js">>)>> >>)>>,
     <<"dependencies", Obj(<<
        <<"@astreus-ai/sdk", Str(<<"latest">>)>>,
        <<"dotenv", Str(<<"^16.6.1">>)>> >>)>>,
     <<"devDependencies",
       IF cfg.typescript
       THEN Obj(<< <<"@types/node", Str(<<"^20.19.25">>)>>,
                   <<"tsx", Str(<<"^4.19.0">>)>>,
                   <<"typescript", Str(<<"^5.8.3">>)>> >>)
       ELSE Undefined>> >>

\* JSON.stringify drops a member whose value is undefined.
IsDefined(kv) == kv[2].t # "undefined"

\* Mutant of Defined: a member whose value is undefined is written too.
Defined_KeepUndefined(members) == members

Defined(members) == SelectSeq(members, IsDefined)

RECURSIVE Flatten(_)
Flatten(blocks) ==
  IF Len(blocks) = 0 THEN <<>> ELSE Head(blocks) \o Flatten(Tail(blocks))

\* JSON.stringify(obj, null, 2) of an object of strings and of objects of
\* strings, as lines.
StringifyMembers(members, indent) ==
  LET d == Defined(members)
      comma(i) == IF i < Len(d) THEN "," ELSE ""
      key(i) == indent \o "\"" \o d[i][1] \o "\": "
      block(i) ==
        IF d[i][2].t = "object"
        THEN << key(i) \o "{" >>
             \o LET e == Defined(d[i][2].members)
                IN [j \in 1..Len(e) |->
                      indent \o "  \"" \o e[j][1] \o "\": \"" \o Interp(e[j][2]) \o "\""
                      \o (IF j < Len(e) THEN "," ELSE "")]
             \o << indent \o "}" \o comma(i) >>
        ELSE << key(i) \o "\"" \o Interp(d[i][2]) \o "\"" \o comma(i) >>
  IN Flatten([i \in 1..Len(d) |-> block(i)])

\* fs.writeJson(file, obj, { spaces: 2 }): the text jsonfile writes, which
\* ends with a line break.
JsonText(members) == << "{" >> \o StringifyMembers(members, "  ") \o << "}", "" >>

\* JSON text of the constant tsConfig object, lines 176-189 (and 591-604).
tsConfig ==
  << "{",
     "  \"compilerOptions\": {",
     "    \"target\": \"ES2020\",",
     "    \"module\": \"ESNext\",",
     "    \"moduleResolution\": \"node\",",
     "    \"esModuleInterop\": true,",
     "    \"strict\": true,",
     "    \"outDir\": \"dist\",",
     "    \"rootDir\": \"src\",",
     "    \"skipLibCheck\": true",
     "  },",
     "  \"include\": [",
     "    \"src/**/*.ts\"",
     "  ],",
     "  \"exclude\": [",
     "    \"node_modules\",",
     "    \"dist\"",
     "  ]",
     "}",
     "" >>

gitignore == << "node_modules/", "dist/", ".env", "*.log", "" >>

\* ------------------------------------------------------------- input sets

Versions == {"0.5.38", "0.5.37"}

\* Process 1 is the CLI process of Spec; RaceSpec runs processes 1 and 2.
Procs == {1, 2}

\* Answers to the name prompt; both pass its validate callback.
Names == {"demo", "taken"}

\* A directory that is in process.cwd() before any run.
Preexisting == {"taken"}

\* The values of the multiselect options, in the order of lines 47-76.
FeatureTags == <<"memory", "knowledge", "graph", "subagents", "plugins", "mcp">>

\* Answers to the multiselect that Spec and RaceSpec draw from.
FeatureAnswers == { <<>>, <<"memory">>, <<"knowledge", "plugins">> }

\* The values of the select options, lines 89-93.
ProviderOptions == {"openai", "anthropic", "google", "ollama", "multiple"}

\* Provider strings the generators are called with under GenSpec: the
\* options, and strings that are no option.
GenProviders == ProviderOptions \cup {"mistral", "constructor", "__proto__"}

\* Feature lists the generators are called with under GenSpec: every subset
\* of the tags, in option order.
TagSet == {FeatureTags[i] : i \in 1..Len(FeatureTags)}

InSet(S) == [i \in 1..Len(FeatureTags) |-> FeatureTags[i] \in S]

RECURSIVE Pick(_, _)
Pick(seq, keep) ==
  IF Len(seq) = 0 THEN <<>>
  ELSE (IF Head(keep) THEN <<Head(seq)>> ELSE <<>>) \o Pick(Tail(seq), Tail(keep))

GenFeatures == {Pick(FeatureTags, InSet(S)) : S \in SUBSET TagSet}

EmptyConfig == [name |-> "", features |-> <<>>, provider |-> "", typescript |-> FALSE]

\* ------------------------------------------------------------- file system

Absent == [type |-> "absent", data |-> <<>>]

Dir == [type |-> "dir", data |-> <<>>]

File(text) == [type |-> "file", data |-> text]

\* path.join(a, b)
PathJoin(a, b) == a \o "/" \o b

\* The names createProject writes under the project directory.
Artifacts ==
  {"package.json", "tsconfig.json", ".env.example", ".env", ".gitignore",
   "src", "src/index.ts", "src/index.js", "README.md"}

AllPaths == Names \cup {PathJoin(n, a) : n \in Names, a \in Artifacts}

\* path.resolve(process.cwd(), config.name), relative to process.cwd()
projectPath(cfg) == cfg.name

\* Mutant of pathExists: the check never finds the path.
pathExists_Never(path) == FALSE

\* fs.pathExists(path)
pathExists(path) == fs[path].type # "absent"

\* The message of a rejected fs call.
FsError(op, path) == "EIO: i/o error, " \o op \o " '" \o path \o "'"

\* fs.writeFile rejects data that is no string (nor a buffer).
InvalidArgType ==
  "The \"data\" argument must be of type string or an instance of Buffer, TypedArray, or DataView."

AlreadyExists(cfg) == "Directory \"" \o cfg.name \o "\" already exists"

\* ------------------------------------------------- the installed copy's parts

EnvContentOf(cfg) ==
  IF version = "0.5.38" THEN getEnvContent(cfg.provider)
  ELSE getEnvContent_37(cfg.provider)

MainFileOf(cfg) ==
  IF version = "0.5.38" THEN generateMainFile(cfg) ELSE generateMainFile_37(cfg)

ReadmeOf(cfg) ==
  IF version = "0.5.38" THEN generateReadme(cfg) ELSE generateReadme_37(cfg)

PackageJsonOf(cfg) ==
  IF version = "0.5.38" THEN packageJson(cfg) ELSE packageJson_37(cfg)

\* Mutant of ext: every entry point is written as src/index.js.
ext_AlwaysJs(cfg) == "js"

\* Mutant of ext: the language flag is not consulted.
ext_AlwaysTs(cfg) == "ts"

\* const ext = config.typescript ? 'ts' : 'js'
ext(cfg) == IF cfg.typescript THEN "ts" ELSE "js"

\* ------------------------------------------------------------ fs operations

Throw(p, msg) ==
  /\ thrown' = [thrown EXCEPT ![p] = msg]
  /\ pc' = [pc EXCEPT ![p] = "threw"]

Completed(p, path, next) ==
  /\ wrote' = [wrote EXCEPT ![p] = Append(@, path)]
  /\ pc' = [pc EXCEPT ![p] = next]
  /\ UNCHANGED thrown

\* Mutant of Mkdir: mkdir without { recursive: true } rejects an existing path.
Mkdir_NotRecursive(p, path, next) ==
  \/ /\ fs[path].type = "absent"
     /\ fs' = [fs EXCEPT ![path] = Dir]
     /\ Completed(p, path, next)
  \/ /\ Throw(p, IF fs[path].type # "absent"
                 THEN "EEXIST: file already exists, mkdir '" \o path \o "'"
                 ELSE FsError("mkdir", path))
     /\ UNCHANGED <<fs, wrote>>

\* await fs.mkdir(path, { recursive: true }): an existing directory is no
\* error; the call may also be rejected by the operating system.
Mkdir(p, path, next) ==
  \/ /\ fs[path].type # "file"
     /\ fs' = [fs EXCEPT ![path] = Dir]
     /\ Completed(p, path, next)
  \/ /\ Throw(p, IF fs[path].type = "file"
                 THEN "EEXIST: file already exists, mkdir '" \o path \o "'"
                 ELSE FsError("mkdir", path))
     /\ UNCHANGED <<fs, wrote>>

\* Mutant of WriteFile: a rejected write is not propagated; the next step runs.
WriteFile_Swallowed(p, path, data, next) ==
  \/ /\ data.t = "string"
     /\ fs' = [fs EXCEPT ![path] = File(data.v)]
     /\ Completed(p, path, next)
  \/ /\ thrown' = [thrown EXCEPT ![p] = FsError("write", path)]
     /\ pc' = [pc EXCEPT ![p] = next]
     /\ UNCHANGED <<fs, wrote>>

\* await fs.writeFile(path, data) / fs.writeJson(path, obj): replaces the file.
\* A rejected write leaves the file as it was or leaves it empty.  Data that is
\* no string is rejected before the file is opened.
WriteFile(p, path, data, next) ==
  \/ /\ data.t = "string"
     /\ fs' = [fs EXCEPT ![path] = File(data.v)]
     /\ Completed(p, path, next)
  \/ /\ data.t = "string"
     /\ \E emptied \in BOOLEAN :
          fs' = IF emptied THEN [fs EXCEPT ![path] = File(<<"">>)] ELSE fs
     /\ Throw(p, FsError("write", path))
     /\ UNCHANGED wrote
  \/ /\ data.t # "string"
     /\ Throw(p, InvalidArgType)
     /\ UNCHANGED <<fs, wrote>>

\* ------------------------------------------------------------ createProject

\* What no step of createProject changes.
CreateFrame == UNCHANGED <<version, config, reported, exitCode, runs, input, output>>

\* lines 136-142: the call, and the pre-flight check
CheckExists(p) ==
  /\ pc[p] = "createProject"
  /\ invoked' = [invoked EXCEPT ![p] = TRUE]
  /\ IF pathExists(projectPath(config[p]))
     THEN Throw(p, AlreadyExists(config[p]))
     ELSE pc' = [pc EXCEPT ![p] = "mkdirProject"] /\ UNCHANGED thrown
  /\ UNCHANGED <<fs, wrote>>
  /\ CreateFrame

\* line 145
MkdirProject(p) ==
  /\ pc[p] = "mkdirProject"
  /\ Mkdir(p, projectPath(config[p]), "writePackageJson")
  /\ UNCHANGED invoked
  /\ CreateFrame

\* lines 148-172
WritePackageJson(p) ==
  /\ pc[p] = "writePackageJson"
  /\ WriteFile(p, PathJoin(projectPath(config[p]), "package.json"),
               Str(JsonText(PackageJsonOf(config[p]))),
               IF config[p].typescript THEN "writeTsconfig" ELSE "writeEnvExample")
  /\ UNCHANGED invoked
  /\ CreateFrame

\* lines 175-194
WriteTsconfig(p) ==
  /\ pc[p] = "writeTsconfig"
  /\ WriteFile(p, PathJoin(projectPath(config[p]), "tsconfig.json"),
               Str(tsConfig), "writeEnvExample")
  /\ UNCHANGED invoked
  /\ CreateFrame

\* lines 197-198 (612-613)
WriteEnvExample(p) ==
  /\ pc[p] = "writeEnvExample"
  /\ WriteFile(p, PathJoin(projectPath(config[p]), ".env.example"),
               EnvContentOf(config[p]),
               IF version = "0.5.37" THEN "writeEnv" ELSE "writeGitignore")
  /\ UNCHANGED invoked
  /\ CreateFrame

\* line 614, in the 0.5.37 copy only
WriteEnv(p) ==
  /\ pc[p] = "writeEnv"
  /\ WriteFile(p, PathJoin(projectPath(config[p]), ".env"),
               EnvContentOf(config[p]), "writeGitignore")
  /\ UNCHANGED invoked
  /\ CreateFrame

\* lines 201-206
WriteGitignore(p) ==
  /\ pc[p] = "writeGitignore"
  /\ WriteFile(p, PathJoin(projectPath(config[p]), ".gitignore"),
               Str(gitignore), "mkdirSrc")
  /\ UNCHANGED invoked
  /\ CreateFrame

\* line 209
MkdirSrc(p) ==
  /\ pc[p] = "mkdirSrc"
  /\ Mkdir(p, PathJoin(projectPath(config[p]), "src"), "writeMain")
  /\ UNCHANGED invoked
  /\ CreateFrame

\* lines 211-213
WriteMain(p) ==
  /\ pc[p] = "writeMain"
  /\ WriteFile(p, PathJoin(projectPath(config[p]), "src/index." \o ext(config[p])),
               Str(MainFileOf(config[p])), "writeReadme")
  /\ UNCHANGED invoked
  /\ CreateFrame

\* lines 216-217
WriteReadme(p) ==
  /\ pc[p] = "writeReadme"
  /\ WriteFile(p, PathJoin(projectPath(config[p]), "README.md"),
               Str(ReadmeOf(config[p])), "returned")
  /\ UNCHANGED invoked
  /\ CreateFrame

createProject(p) ==
  \/ CheckExists(p)
  \/ MkdirProject(p)
  \/ WritePackageJson(p)
  \/ WriteTsconfig(p)
  \/ WriteEnvExample(p)
  \/ WriteEnv(p)
  \/ WriteGitignore(p)
  \/ MkdirSrc(p)
  \/ WriteMain(p)
  \/ WriteReadme(p)

\* --------------------------------------------------------------------- main

Prompts == {"promptName", "promptFeatures", "promptProvider", "promptTypescript"}

\* What no step of main outside createProject changes.
MainFrame == UNCHANGED <<version, fs, thrown, invoked, wrote, runs, input, output>>

\* lines 27-37: p.text answered; validate lets only valid names through
AnswerName(p) ==
  /\ pc[p] = "promptName"
  /\ \E name \in Names : config' = [config EXCEPT ![p].name = name]
  /\ pc' = [pc EXCEPT ![p] = "promptFeatures"]
  /\ UNCHANGED <<reported, exitCode>>
  /\ MainFrame

\* lines 44-79: p.multiselect answered
AnswerFeatures(p) ==
  /\ pc[p] = "promptFeatures"
  /\ \E features \in FeatureAnswers : config' = [config EXCEPT ![p].features = features]
  /\ pc' = [pc EXCEPT ![p] = "promptProvider"]
  /\ UNCHANGED <<reported, exitCode>>
  /\ MainFrame

\* lines 86-95: p.select answered
AnswerProvider(p) ==
  /\ pc[p] = "promptProvider"
  /\ \E provider \in ProviderOptions : config' = [config EXCEPT ![p].provider = provider]
  /\ pc' = [pc EXCEPT ![p] = "promptTypescript"]
  /\ UNCHANGED <<reported, exitCode>>
  /\ MainFrame

\* lines 102-120: p.confirm answered, the config is built, the spinner starts
AnswerTypescript(p) ==
  /\ pc[p] = "promptTypescript"
  /\ \E typescript \in BOOLEAN : config' = [config EXCEPT ![p].typescript = typescript]
  /\ pc' = [pc EXCEPT ![p] = "createProject"]
  /\ UNCHANGED <<reported, exitCode>>
  /\ MainFrame

\* Mutant of Cancel: cancelling is treated as a failure of the run.
Cancel_ExitsNonZero(p) ==
  /\ pc[p] \in Prompts
  /\ reported' = [reported EXCEPT ![p] = <<"Operation cancelled">>]
  /\ exitCode' = [exitCode EXCEPT ![p] = 1]
  /\ pc' = [pc EXCEPT ![p] = "exited"]
  /\ UNCHANGED config
  /\ MainFrame

\* lines 39-42, 81-84, 97-100, 107-110: p.isCancel(answer)
Cancel(p) ==
  /\ pc[p] \in Prompts
  /\ reported' = [reported EXCEPT ![p] = <<"Operation cancelled">>]
  /\ exitCode' = [exitCode EXCEPT ![p] = 0]
  /\ pc' = [pc EXCEPT ![p] = "exited"]
  /\ UNCHANGED config
  /\ MainFrame

\* lines 124-128: createProject resolved; main returns and the process ends
MainSuccess(p) ==
  /\ pc[p] = "returned"
  /\ reported' = [reported EXCEPT ![p] = <<"Project created!", "Happy building!">>]
  /\ exitCode' = [exitCode EXCEPT ![p] = 0]
  /\ pc' = [pc EXCEPT ![p] = "exited"]
  /\ UNCHANGED config
  /\ MainFrame

\* lines 129-133: every rejection of createProject is an Error
MainCatch(p) ==
  /\ pc[p] = "threw"
  /\ reported' = [reported EXCEPT ![p] =
                    <<"Failed to create project", "Error: " \o thrown[p]>>]
  /\ exitCode' = [exitCode EXCEPT ![p] = 1]
  /\ pc' = [pc EXCEPT ![p] = "exited"]
  /\ UNCHANGED config
  /\ MainFrame

main(p) ==
  \/ AnswerName(p)
  \/ AnswerFeatures(p)
  \/ AnswerProvider(p)
  \/ AnswerTypescript(p)
  \/ Cancel(p)
  \/ createProject(p)
  \/ MainSuccess(p)
  \/ MainCatch(p)

\* line 409: main() is called when the program is loaded.  A CLI process is
\* started once the one before it has ended.
StartRun ==
  /\ runs < MaxRuns
  /\ pc[1] \in {"idle", "exited"}
  /\ runs' = runs + 1
  /\ pc' = [pc EXCEPT ![1] = "promptName"]
  /\ config' = [config EXCEPT ![1] = EmptyConfig]
  /\ thrown' = [thrown EXCEPT ![1] = ""]
  /\ reported' = [reported EXCEPT ![1] = <<>>]
  /\ exitCode' = [exitCode EXCEPT ![1] = -1]
  /\ invoked' = [invoked EXCEPT ![1] = FALSE]
  /\ wrote' = [wrote EXCEPT ![1] = <<>>]
  /\ UNCHANGED <<version, fs, input, output>>

\* ----------------------------------------------------------- specifications

NotCalled == [t |-> "none", v |-> <<>>]

NoOutput == [env |-> NotCalled, main |-> <<>>, pkg |-> <<>>, readme |-> <<>>]

EmptyCwd == [path \in AllPaths |-> IF path \in Preexisting THEN Dir ELSE Absent]

ProcInit ==
  /\ thrown = [p \in Procs |-> ""]
  /\ reported = [p \in Procs |-> <<>>]
  /\ exitCode = [p \in Procs |-> -1]
  /\ invoked = [p \in Procs |-> FALSE]
  /\ wrote = [p \in Procs |-> <<>>]

\* Spec: CLI processes run one after another in the same directory.
Init ==
  /\ version \in Versions
  /\ fs = EmptyCwd
  /\ pc = [p \in Procs |-> "idle"]
  /\ config = [p \in Procs |-> EmptyConfig]
  /\ ProcInit
  /\ runs = 0
  /\ input = EmptyConfig
  /\ output = NoOutput

Next == StartRun \/ main(1)

Spec == Init /\ [][Next]_vars

\* RaceSpec: two CLI processes in the same directory, each with its answers
\* collected and about to call createProject.
RaceConfigs ==
  { [name |-> "demo", features |-> <<"memory">>, provider |-> "openai", typescript |-> TRUE],
    [name |-> "demo", features |-> <<>>, provider |-> "anthropic", typescript |-> FALSE],
    [name |-> "demo", features |-> <<"knowledge", "plugins">>, provider |-> "ollama",
     typescript |-> TRUE] }

RaceInit ==
  /\ version \in Versions
  /\ fs = EmptyCwd
  /\ pc = [p \in Procs |-> "createProject"]
  /\ config \in [Procs -> RaceConfigs]
  /\ ProcInit
  /\ runs = 0
  /\ input = EmptyConfig
  /\ output = NoOutput

RaceNext == \E p \in Procs : createProject(p) \/ MainSuccess(p) \/ MainCatch(p)

RaceSpec == RaceInit /\ [][RaceNext]_vars

\* GenSpec: the generators applied to one ProjectConfig, which need not have
\* come through the prompts.
GenConfigs ==
  [name : {"demo", "my-astreus-agent"}, features : GenFeatures,
   provider : GenProviders, typescript : BOOLEAN]

GenInit ==
  /\ version \in Versions
  /\ fs = EmptyCwd
  /\ pc = [p \in Procs |-> "idle"]
  /\ config = [p \in Procs |-> EmptyConfig]
  /\ ProcInit
  /\ runs = 0
  /\ input \in GenConfigs
  /\ output = NoOutput

GenFrame == UNCHANGED <<version, fs, pc, config, thrown, reported, exitCode,
                        invoked, wrote, runs, input>>

CallGetEnvContent ==
  /\ output.env = NotCalled
  /\ output' = [output EXCEPT !.env = EnvContentOf(input)]
  /\ GenFrame

CallGenerateMainFile ==
  /\ output.main = <<>>
  /\ output' = [output EXCEPT !.main = MainFileOf(input)]
  /\ GenFrame

CallPackageJson ==
  /\ output.pkg = <<>>
  /\ output' = [output EXCEPT !.pkg = JsonText(PackageJsonOf(input))]
  /\ GenFrame

CallGenerateReadme ==
  /\ output.readme = <<>>
  /\ output' = [output EXCEPT !.readme = ReadmeOf(input)]
  /\ GenFrame

GenNext ==
  \/ CallGetEnvContent
  \/ CallGenerateMainFile
  \/ CallPackageJson
  \/ CallGenerateReadme

GenSpec == GenInit /\ [][GenNext]_vars

\* ======================================================================
\* Claims
\* ======================================================================

\* The artifacts a project of this config consists of, as the claims list
\* them (the language flag decides tsconfig.json and the entry point).
ClaimedArtifacts(cfg) ==
  {"package.json", ".env.example", ".gitignore", "README.md", "src"}
  \cup (IF cfg.typescript THEN {"tsconfig.json", "src/index.ts"} ELSE {"src/index.js"})

\* What is on disk under the project directory of cfg.
Listing(cfg) == {a \in Artifacts : fs[cfg.name \o "/" \o a].type # "absent"}

\* createProject of process p has resolved.
Succeeded(p) == invoked[p] /\ thrown[p] = "" /\ pc[p] \in {"returned", "exited"}

\* createProject of process p has rejected.
Failed(p) == invoked[p] /\ thrown[p] # ""

\* C1: a createProject call whose target path exists rejects with the
\* 'Directory "<name>" already exists' error at its first step, with the file
\* system left as it was and nothing written; and from then until the process
\* has ended and the next one starts, the file system stays as it was.
C1_ExistingPathRejected ==
  [][ \A p \in Procs :
        /\ ( /\ pc[p] = "createProject"
             /\ fs[config[p].name].type # "absent"
             /\ pc'[p] # pc[p] )
           => ( /\ pc'[p] = "threw"
                /\ thrown'[p] = "Directory \"" \o config[p].name \o "\" already exists"
                /\ wrote'[p] = <<>>
                /\ fs' = fs )
        /\ ( /\ invoked[p]
             /\ thrown[p] = "Directory \"" \o config[p].name \o "\" already exists" )
           => fs' = fs
    ]_vars

\* C1 witness: the second run was given the name of the project the first run
\* created, and has been rejected; the first run's README.md is on disk.
C1_SecondCallRejected ==
  /\ runs = 2
  /\ pc[1] = "threw"
  /\ config[1].name = "demo"
  /\ thrown[1] = "Directory \"demo\" already exists"
  /\ fs["demo/README.md"].type = "file"

\* C2 (as claimed): once createProject has resolved or rejected, the project
\* directory holds every artifact or the call wrote nothing.
C2_AllOrNothing ==
  \A p \in Procs :
    (Succeeded(p) \/ Failed(p)) =>
      \/ /\ fs[config[p].name].type = "dir"
         /\ ClaimedArtifacts(config[p]) \subseteq Listing(config[p])
      \/ wrote[p] = <<>>

\* C2 (amended): a resolved createProject leaves the project directory with
\* every artifact; one rejected with the 'already exists' error wrote nothing.
\* (One rejected by a failed mkdir or write leaves what it had written.)
C2_AllOrNothingUnlessWriteFails ==
  \A p \in Procs :
    /\ Succeeded(p) =>
         /\ fs[config[p].name].type = "dir"
         /\ ClaimedArtifacts(config[p]) \subseteq Listing(config[p])
         /\ \A a \in ClaimedArtifacts(config[p]) \ {"src"} :
              /\ fs[config[p].name \o "/" \o a].type = "file"
              /\ fs[config[p].name \o "/" \o a].data # <<"">>
    /\ (Failed(p) /\ thrown[p] = "Directory \"" \o config[p].name \o "\" already exists")
         => wrote[p] = <<>>

\* C2 witness: createProject was rejected after the project directory and
\* package.json were written; the process has ended with the partial tree.
C2_PartialTreeLeft ==
  /\ pc[1] = "exited"
  /\ exitCode[1] = 1
  /\ Len(wrote[1]) = 2
  /\ fs["demo/package.json"].type = "file"
  /\ fs["demo/README.md"].type = "absent"

\* The project directory of cfg holds exactly the claimed artifacts: src is a
\* directory, every other one a file.
ExactTree(cfg) ==
  /\ fs[cfg.name].type = "dir"
  /\ Listing(cfg) = ClaimedArtifacts(cfg)
  /\ \A a \in ClaimedArtifacts(cfg) :
       fs[cfg.name \o "/" \o a].type = (IF a = "src" THEN "dir" ELSE "file")

\* C3: after a createProject that resolved, the project directory holds
\* exactly package.json, tsconfig.json (iff typescript), .env.example,
\* .gitignore, README.md and src with the one entry point, and nothing else.
C3_ExactTree == \A p \in Procs : Succeeded(p) => ExactTree(config[p])

\* C3, for the 0.5.38 copy alone.
C3_ExactTree_0_5_38 == version = "0.5.38" => C3_ExactTree

\* C3, what the 0.5.37 copy leaves: the claimed artifacts and .env, a copy
\* of .env.example.
C3_Tree_0_5_37 ==
  \A p \in Procs :
    (version = "0.5.37" /\ Succeeded(p)) =>
      /\ Listing(config[p]) = ClaimedArtifacts(config[p]) \cup {".env"}
      /\ fs[config[p].name \o "/.env"] = fs[config[p].name \o "/.env.example"]

\* The lines of the "scripts" member of a package.json text: from the line
\* after its opening line up to the line before the closing line of the member.
ScriptsBlock(text) ==
  LET open == {i \in 1..Len(text) : text[i] = "  \"scripts\": {"}
  IN IF open = {} THEN <<>>
     ELSE LET i == CHOOSE k \in open : TRUE
              close == {k \in (i + 1)..Len(text) : text[k] \in {"  },", "  }"}}
          IN IF close = {} THEN <<>>
             ELSE LET j == CHOOSE k \in close : \A m \in close : k <= m
                  IN SubSeq(text, i + 1, j - 1)

\* C4: the scripts map of the generated package.json is dev, build, start
\* with build "tsc" when typescript is true; when it is false there is no
\* build member and dev and start both run src/index.js with node.
C4_ScriptsMatchLanguage ==
  output.pkg # <<>> =>
    ScriptsBlock(output.pkg) =
      IF input.typescript
      THEN << "    \"dev\": \"tsx src/index.ts\",",
              "    \"build\": \"tsc\",",
              "    \"start\": \"node dist/index.js\"" >>
      ELSE << "    \"dev\": \"node src/index.js\",",
              "    \"start\": \"node src/index.js\"" >>

\* C4 witness: the manifest of an untyped project has been generated.
C4_UntypedManifestGenerated ==
  /\ output.pkg # <<>>
  /\ ~input.typescript
  /\ Len(ScriptsBlock(output.pkg)) = 2

\* --- reading the import statements of an entry-point text

\* The names the SDK packages export to the generated code.
SdkSymbols ==
  << "Agent", "Memory", "Knowledge", "Graph", "getPlugin",
     "MemoryModule", "KnowledgeModule", "GraphModule" >>

AllMasks == [1..Len(SdkSymbols) -> BOOLEAN]

\* Every named-import statement of an SDK package, with the names it imports.
SdkImportStatements ==
  UNION { LET names == Pick(SdkSymbols, mask)
              set == {names[i] : i \in 1..Len(names)}
          IN IF Len(names) = 0 THEN {}
             ELSE { << "import { " \o Join(names, ", ") \o " } from '@astreus-ai/astreus';", set >>,
                    << "import { " \o Join(names, ", ") \o " } from \"@astreus-ai/sdk\";", set >> }
        : mask \in AllMasks }

DotenvImports == {"import 'dotenv/config';", "import \"dotenv/config\";"}

\* The import statements of a text: its lines up to the first empty line.
ImportBlock(text) ==
  LET empty == {i \in 1..Len(text) : text[i] = ""}
  IN IF empty = {} THEN text
     ELSE SubSeq(text, 1, (CHOOSE i \in empty : \A j \in empty : i <= j) - 1)

\* The SDK names a text imports.
SdkImportsOf(text) ==
  LET block == ImportBlock(text)
  IN UNION { st[2] : st \in {x \in SdkImportStatements :
                               \E i \in 1..Len(block) : block[i] = x[1]} }

\* Every import statement of the text is one of an SDK package or of dotenv.
ImportsParse(text) ==
  LET block == ImportBlock(text)
  IN \A i \in 1..Len(block) :
       \/ block[i] \in DotenvImports
       \/ \E st \in SdkImportStatements : st[1] = block[i]

\* The SDK name(s) a feature tag stands for; subagents and mcp have none.
SymbolsFor ==
  [memory    |-> {"Memory", "MemoryModule"},
   knowledge |-> {"Knowledge", "KnowledgeModule"},
   graph     |-> {"Graph", "GraphModule"},
   plugins   |-> {"getPlugin"}]

\* C5: the SDK names the entry point imports are Agent and one name for each
\* of memory, knowledge, graph, plugins that is in features, and no other.
C5_ImportsExactlyMapped ==
  output.main # <<>> =>
    LET S == SdkImportsOf(output.main)
        present == {tag \in DOMAIN SymbolsFor : Includes(input.features, tag)}
    IN /\ ImportsParse(output.main)
       /\ "Agent" \in S
       /\ \A tag \in DOMAIN SymbolsFor : (tag \in present) <=> (S \cap SymbolsFor[tag] # {})
       /\ Cardinality(S) = 1 + Cardinality(present)

\* C5, for the 0.5.38 copy alone.
C5_ImportsExactlyMapped_0_5_38 == version = "0.5.38" => C5_ImportsExactlyMapped

\* C5, what the 0.5.37 copy imports: Agent, and MemoryModule, KnowledgeModule,
\* GraphModule for memory, knowledge, graph; nothing for plugins.
C5_Imports_0_5_37 ==
  (version = "0.5.37" /\ output.main # <<>>) =>
    /\ ImportsParse(output.main)
    /\ SdkImportsOf(output.main) =
         {"Agent"}
         \cup (IF Includes(input.features, "memory") THEN {"MemoryModule"} ELSE {})
         \cup (IF Includes(input.features, "knowledge") THEN {"KnowledgeModule"} ELSE {})
         \cup (IF Includes(input.features, "graph") THEN {"GraphModule"} ELSE {})

\* C6: getEnvContent returns the table entry of a provider that is one of the
\* five options, and the openai entry for every other string.
C6_EnvContentByProvider ==
  output.env # NotCalled =>
    LET table == IF version = "0.5.38" THEN envVars ELSE envVars_37
    IN output.env = [t |-> "string",
                     v |-> IF input.provider \in ProviderOptions
                           THEN table[input.provider] ELSE table.openai]

\* C6, for the strings that are no property of Object.prototype.
C6_EnvContentByProvider_OwnKeys ==
  input.provider \notin ObjectPrototypeKeys => C6_EnvContentByProvider

\* C7: a CLI process that has ended after a cancelled prompt has exit code 0,
\* never called createProject and wrote nothing; one whose createProject
\* resolved has exit code 0; one whose createProject rejected has reported
\* the error's message and has exit code 1.  A prompt that is cancelled ends
\* the process in that very step.
C7_ExitCodes ==
  /\ \A p \in Procs :
       reported[p] = <<"Operation cancelled">> =>
         (pc[p] = "exited" /\ exitCode[p] = 0 /\ ~invoked[p] /\ wrote[p] = <<>>)
  /\ \A p \in Procs :
       pc[p] = "exited" =>
         /\ ~invoked[p] => reported[p] = <<"Operation cancelled">>
         /\ (invoked[p] /\ thrown[p] = "") => exitCode[p] = 0
         /\ (invoked[p] /\ thrown[p] # "") =>
              (exitCode[p] = 1 /\ reported[p][Len(reported[p])] = "Error: " \o thrown[p])
  /\ \A p \in Procs : pc[p] # "exited" => exitCode[p] = -1
  /\ \A p \in Procs : pc[p] \in Prompts => (~invoked[p] /\ wrote[p] = <<>>)

\* C7 witness: the provider prompt was cancelled (name and features had been
\* answered) and the process has ended.
C7_CancelledAtProvider ==
  /\ pc[1] = "exited"
  /\ reported[1] = <<"Operation cancelled">>
  /\ config[1].name = "demo"
  /\ config[1].features # <<>>
  /\ config[1].provider = ""

\* The fs calls of createProject for cfg, in program order.
WriteOrder(cfg) ==
  << cfg.name, cfg.name \o "/package.json" >>
  \o (IF cfg.typescript THEN << cfg.name \o "/tsconfig.json" >> ELSE <<>>)
  \o << cfg.name \o "/.env.example" >>
  \o (IF version = "0.5.37" THEN << cfg.name \o "/.env" >> ELSE <<>>)
  \o << cfg.name \o "/.gitignore", cfg.name \o "/src",
        cfg.name \o (IF cfg.typescript THEN "/src/index.ts" ELSE "/src/index.js"),
        cfg.name \o "/README.md" >>

\* C8: when a mkdir or write of createProject has failed, createProject has
\* rejected with that failure; the calls before the failed one are the ones it
\* completed, in order, and what they wrote is on disk; nothing that comes
\* after the failed call is on disk; and the process does nothing more to the
\* file system.
C8_FailureStopsWithoutRollback ==
  /\ [] \A p \in Procs :
       (Failed(p) /\ thrown[p] # "Directory \"" \o config[p].name \o "\" already exists") =>
         LET order == WriteOrder(config[p])
             k == Len(wrote[p])
         IN /\ pc[p] \in {"threw", "exited"}
            /\ k < Len(order)
            /\ wrote[p] = SubSeq(order, 1, k)
            /\ thrown[p] \in { FsError("mkdir", order[k + 1]), FsError("write", order[k + 1]) }
            /\ \A i \in 1..k : fs[order[i]].type # "absent" /\ fs[order[i]].data # <<"">>
            /\ \A i \in (k + 2)..Len(order) : fs[order[i]].type = "absent"
  /\ [][ \A p \in Procs : (Failed(p) /\ pc'[p] # "promptName") => fs' = fs ]_vars

\* C8 witness: the write of .gitignore failed; package.json and .env.example
\* are on disk, src and README.md are not.
C8_GitignoreWriteFailed ==
  /\ pc[1] = "threw"
  /\ thrown[1] = "EIO: i/o error, write 'demo/.gitignore'"
  /\ fs["demo/package.json"].type = "file"
  /\ fs["demo/.env.example"].type = "file"
  /\ fs["demo/src"].type = "absent"
  /\ fs["demo/README.md"].type = "absent"

\* C9: under RaceSpec nothing but the pathExists check guards the project
\* directory.  A createProject is rejected with the 'already exists' error
\* only at that check, before it wrote anything; every other rejection is a
\* failed fs call, never one caused by the directory being there already
\* (mkdir is recursive).  The witness is the race itself.
C9_OnlyTheCheckGuards ==
  \A p \in Procs :
    Failed(p) =>
      \/ /\ thrown[p] = "Directory \"" \o config[p].name \o "\" already exists"
         /\ wrote[p] = <<>>
      \/ \E path \in AllPaths :
           thrown[p] \in {FsError("mkdir", path), FsError("write", path)}

\* C9 witness: both processes passed the check, neither was rejected, both
\* createProject calls resolved, and the tree mixes the two configs:
\* package.json is the one of process 1's config and README.md the one of
\* process 2's, and the configs differ in both.
C9_MixedTree ==
  /\ Succeeded(1) /\ Succeeded(2)
  /\ config[1].name = config[2].name
  /\ fs[config[1].name \o "/package.json"].data = JsonText(PackageJsonOf(config[1]))
  /\ fs[config[1].name \o "/package.json"].data # JsonText(PackageJsonOf(config[2]))
  /\ fs[config[1].name \o "/README.md"].data = ReadmeOf(config[2])
  /\ fs[config[1].name \o "/README.md"].data # ReadmeOf(config[1])
  /\ fs[config[1].name \o "/src/index.ts"].type = "file"
  /\ fs[config[1].name \o "/src/index.js"].type = "file"

\* --- reading the agent-construction block of an entry-point text

ConstructionOpeners ==
  {"  const agent = await Agent.create({", "  const agent = new Agent({"}

\* The lines between the line that opens the construction call and the line
\* that closes it.
ConstructionBlock(text) ==
  LET open == {i \in 1..Len(text) : text[i] \in ConstructionOpeners}
  IN IF open = {} THEN <<>>
     ELSE LET i == CHOOSE k \in open : TRUE
              close == {k \in (i + 1)..Len(text) : text[k] = "  });"}
          IN IF close = {} THEN <<>>
             ELSE SubSeq(text, i + 1, (CHOOSE k \in close : \A m \in close : k <= m) - 1)

Lines(block) == {block[i] : i \in 1..Len(block)}

\* The model name the provider table of the installed copy gives, the openai
\* entry for a provider that is none of the five options.
TableModel(provider) ==
  LET key == IF provider \in ProviderOptions THEN provider ELSE "openai"
  IN IF version = "0.5.38" THEN modelMap[key][1] ELSE providerMap_37[key].model

\* C10: the construction block has the name, the model of the provider table
\* (the openai entry for an unrecognized provider) and the system prompt; it
\* has 'memory: true' iff memory is selected and 'knowledge: true' iff
\* knowledge is selected; and it has no other option.
C10_ConstructionBlock ==
  output.main # <<>> =>
    LET block == ConstructionBlock(output.main)
        q == IF version = "0.5.38" THEN "'" ELSE "\""
        has(tag) == Includes(input.features, tag)
    IN /\ ("    name: " \o q \o input.name \o q \o ",") \in Lines(block)
       /\ \/ ("    model: '" \o TableModel(input.provider) \o "',") \in Lines(block)
          \/ ("      name: \"" \o TableModel(input.provider) \o "\",") \in Lines(block)
       /\ ("    systemPrompt: " \o q \o "You are a helpful AI assistant powered by Astreus."
             \o q \o ",") \in Lines(block)
       /\ has("memory") <=> ("    memory: true," \in Lines(block))
       /\ has("knowledge") <=> ("    knowledge: true," \in Lines(block))
       /\ Len(block) = (IF version = "0.5.38" THEN 3 ELSE 6)
                       + (IF has("memory") THEN 1 ELSE 0)
                       + (IF has("knowledge") THEN 1 ELSE 0)

\* C10, for the 0.5.38 copy and the provider strings that are no property of
\* Object.prototype.
C10_ConstructionBlock_0_5_38_OwnKeys ==
  (version = "0.5.38" /\ input.provider \notin ObjectPrototypeKeys) => C10_ConstructionBlock

\* C10, for the 0.5.38 copy alone.
C10_ConstructionBlock_0_5_38 == version = "0.5.38" => C10_ConstructionBlock

\* C10, for the provider strings that are no property of Object.prototype.
C10_ConstructionBlock_OwnKeys ==
  input.provider \notin ObjectPrototypeKeys => C10_ConstructionBlock

\* --- the order of the writes of one createProject

\* The order the artifacts of cfg are said to be written in.
ClaimedOrder(cfg) ==
  << cfg.name, cfg.name \o "/package.json" >>
  \o (IF cfg.typescript THEN << cfg.name \o "/tsconfig.json" >> ELSE <<>>)
  \o << cfg.name \o "/.env.example", cfg.name \o "/.gitignore", cfg.name \o "/src",
        cfg.name \o (IF cfg.typescript THEN "/src/index.ts" ELSE "/src/index.js"),
        cfg.name \o "/README.md" >>

\* The project directory of cfg and what is on disk under it.
OnDisk(cfg) ==
  {path \in {cfg.name} \cup {cfg.name \o "/" \o a : a \in Artifacts} :
     fs[path].type # "absent"}

\* createProject of process p has been called and was not rejected by the
\* existence check.
Creating(p) ==
  invoked[p] /\ thrown[p] # "Directory \"" \o config[p].name \o "\" already exists"

\* What is on disk is order[1..k] for some k, and if the last of order is on
\* disk then all of order is.
PrefixOnDisk(cfg, order) ==
  /\ \E k \in 0..Len(order) : OnDisk(cfg) = {order[i] : i \in 1..k}
  /\ fs[order[Len(order)]].type # "absent" =>
       \A i \in 1..Len(order) : fs[order[i]].type # "absent"

\* C11: during and after a createProject that got past the existence check,
\* what is on disk of the project is a prefix of: project directory,
\* package.json, tsconfig.json (typescript only), .env.example, .gitignore,
\* src, src/index.<ext>, README.md; and README.md on disk implies all of them
\* are on disk.
C11_WritesInOrder ==
  \A p \in Procs : Creating(p) => PrefixOnDisk(config[p], ClaimedOrder(config[p]))

\* C11, for the 0.5.38 copy alone.
C11_WritesInOrder_0_5_38 == version = "0.5.38" => C11_WritesInOrder

\* C11 with the order each copy has: the 0.5.37 copy writes .env between
\* .env.example and .gitignore.  What the process has completed is that prefix,
\* in that order.
C11_PrefixOfWriteOrder ==
  \A p \in Procs :
    Creating(p) =>
      /\ PrefixOnDisk(config[p], WriteOrder(config[p]))
      /\ Len(wrote[p]) <= Len(WriteOrder(config[p]))
      /\ wrote[p] = SubSeq(WriteOrder(config[p]), 1, Len(wrote[p]))

\* C11, one at a time: no step changes more than one path, and a step that
\* completes a write changes the path it completed and no other.
C11_OneAtATime ==
  [][ \A p \in Procs :
        /\ Cardinality({path \in AllPaths : fs'[path] # fs[path]}) <= 1
        /\ (Creating(p) /\ Len(wrote'[p]) = Len(wrote[p]) + 1) =>
             \A path \in AllPaths :
               fs'[path] # fs[path] => path = wrote'[p][Len(wrote'[p])] ]_vars

\* C11: the 0.5.37 copy has written .env, which is on disk and is no member
\* of the claimed sequence.
C11_EnvOnDiskBeforeGitignore ==
  /\ version = "0.5.37"
  /\ pc[1] = "writeGitignore"
  /\ fs["demo/.env"].type = "file"
  /\ fs["demo/.gitignore"].type = "absent"

\* --- reading the generated artifacts back from disk

EntryPoints == {"src/index.ts", "src/index.js"}

\* The entry points the dev script of a package.json text runs.
DevScriptFiles(text) ==
  {f \in EntryPoints :
     \E runner \in {"tsx", "node"} :
       ("    \"dev\": \"" \o runner \o " " \o f \o "\",") \in Lines(ScriptsBlock(text))}

\* The entry points on disk under the project directory of cfg.
EntryPointsWritten(cfg) == {f \in EntryPoints : fs[cfg.name \o "/" \o f].type = "file"}

HasBuildScript(text) ==
  \E i \in 1..Len(ScriptsBlock(text)) :
    ScriptsBlock(text)[i] \in {"    \"build\": \"tsc\",", "    \"build\": \"tsc\""}

HasDevDependencies(text) == "  \"devDependencies\": {" \in Lines(text)

\* The providers whose env template is the text.
EnvProviders(text) ==
  {q \in ProviderOptions :
     text = (IF version = "0.5.38" THEN envVars[q] ELSE envVars_37[q])}

\* The providers whose model the construction block of the entry point names.
ModelProviders(text) ==
  {q \in ProviderOptions :
     \/ ("    model: '" \o TableModel(q) \o "',") \in Lines(ConstructionBlock(text))
     \/ ("      name: \"" \o TableModel(q) \o "\",") \in Lines(ConstructionBlock(text))}

\* C12: after a createProject that resolved, (a) the manifest's dev script
\* names one entry point and it is the one entry point on disk; (b)
\* tsconfig.json is on disk iff the manifest has a build script, and iff it has
\* devDependencies; (c) the provider of the config is one whose env template
\* is the .env.example on disk and is one whose model the entry point names.
C12_ArtifactsCoherent ==
  \A p \in Procs :
    Succeeded(p) =>
      LET cfg == config[p]
          pkg == fs[cfg.name \o "/package.json"].data
          env == fs[cfg.name \o "/.env.example"].data
          entry == fs[cfg.name \o "/src/index." \o (IF cfg.typescript THEN "ts" ELSE "js")].data
      IN /\ Cardinality(DevScriptFiles(pkg)) = 1
         /\ DevScriptFiles(pkg) = EntryPointsWritten(cfg)
         /\ DevScriptFiles(pkg) = {IF cfg.typescript THEN "src/index.ts" ELSE "src/index.js"}
         /\ (fs[cfg.name \o "/tsconfig.json"].type = "file") <=> HasBuildScript(pkg)
         /\ (fs[cfg.name \o "/tsconfig.json"].type = "file") <=> HasDevDependencies(pkg)
         /\ (fs[cfg.name \o "/tsconfig.json"].type = "file") <=> cfg.typescript
         /\ cfg.provider \in EnvProviders(env) \cap ModelProviders(entry)

\* C12 witness: an untyped project for anthropic has been created; its dev
\* script runs src/index.js, which is on disk, and there is no tsconfig.json.
C12_UntypedAnthropicCreated ==
  /\ Succeeded(1)
  /\ ~config[1].typescript
  /\ config[1].provider = "anthropic"
  /\ fs["demo/src/index.js"].type = "file"
  /\ fs["demo/tsconfig.json"].type = "absent"
  /\ DevScriptFiles(fs["demo/package.json"].data) = {"src/index.js"}
  /\ EnvProviders(fs["demo/.env.example"].data) = {"anthropic"}

====
